---- MODULE Spec2Model ----
(***************************************************************************)
(* Model of bonobo/execution/strategies/executor.py: one execute() call of *)
(* an ExecutorStrategy (thread, process or asyncio-bridged thread pool),   *)
(* the starter / _runner closures of get_starter, and the pool's workers.  *)
(*                                                                         *)
(* The coordinating thread is the control flow of execute(); pc is its     *)
(* position.  The execution context is a collaborator: each of its calls   *)
(* may return or raise, and `alive` is whatever the context reports.       *)
(* The pool follows concurrent.futures: submit() after shutdown raises,    *)
(* shutdown(wait=True) lets the workers drain the queue and joins them,    *)
(* max_workers <= 0 is rejected with ValueError.                           *)
(***************************************************************************)
EXTENDS Integers, Sequences, FiniteSets, TLC

MaxNodes == 2
MaxTicks == 2

Kinds == {"thread", "process", "async"}

VARIABLES
    kind,      \* which strategy class execute() is called on
    alpha,     \* settings.ALPHA (off by default; only the async strategy reads it)
    graph,     \* len(graph); the nodes are 1..graph in iteration order
    pc,        \* position of the coordinating thread
    exc,       \* exception propagating out of (or raised from) execute()
    trace,     \* calls made by the coordinating thread, in order
    observed,  \* last value of context.alive read by the while condition
    offered,   \* number of nodes context.start() has passed to the starter
    backend,   \* "none", "open", "shutdown" (draining), "closed" (joined)
    stask,     \* async only: the starter call scheduled by run_in_executor
    runner,    \* per node: state of its _runner unit of work
    scope,     \* per node: state of the `with node:` scope
    failed,    \* per node: an exception is propagating inside _runner
    futures,   \* the futures list of this execute() call
    critical,  \* logger.critical records
    calls,     \* two execute() calls on one strategy: each call's locals
    heap       \* the objects those calls created: futures lists and pools

vars == <<kind, alpha, graph, pc, exc, trace, observed, offered, backend,
          stask, runner, scope, failed, futures, critical, calls, heap>>

Nodes == 1..graph

coord == <<pc, exc, trace, observed, offered>>
pool  == <<stask, runner, scope, failed, futures, critical>>
conf  == <<kind, alpha, graph>>
twin  == <<calls, heap>>

Count(s, e) == Cardinality({k \in 1..Len(s) : s[k] = e})

Index(s, e) == IF \E k \in 1..Len(s) : s[k] = e
               THEN CHOOSE k \in 1..Len(s) : s[k] = e /\ \A j \in 1..(k-1) : s[j] # e
               ELSE 0

Has(s, e) == Index(s, e) > 0

\* An exception: its class and the call that raised it.
Exc(type, from) == [type |-> type, from |-> from]

NoExc == Exc("none", "none")

Before(s, a, b) == Index(s, a) > 0 /\ Index(s, b) > 0 /\ Index(s, a) < Index(s, b)

\* Two calls of execute() made on the same strategy object.
Calls == {1, 2}

\* The locals of a call that has not begun: executor and futures are unbound.
NoCall == [pc |-> "idle", executor |-> 0, futures |-> 0, offered |-> 0,
           rejected |-> {}]

Init ==
    /\ kind \in Kinds
    /\ alpha \in (IF kind = "async" THEN BOOLEAN ELSE {FALSE})
    /\ graph \in 0..MaxNodes
    /\ pc = "new"
    /\ exc = NoExc
    /\ trace = <<>>
    /\ observed = "none"
    /\ offered = 0
    /\ backend = "none"
    /\ stask = [i \in 1..graph |-> "none"]
    /\ runner = [i \in 1..graph |-> "none"]
    /\ scope = [i \in 1..graph |-> "none"]
    /\ failed = [i \in 1..graph |-> FALSE]
    /\ futures = <<>>
    /\ critical = {}
    /\ calls = [c \in Calls |-> NoCall]
    /\ heap = <<>>

(***************************************************************************)
(* The pool (concurrent.futures.Executor used as a context manager).       *)
(***************************************************************************)

\* Units of work that occupy a worker of the pool right now.
Busy == Cardinality({i \in Nodes : stask[i] = "running"})
        + Cardinality({i \in Nodes : runner[i] \in {"inscope", "leaving"}})

\* A pool with one worker more than the graph has nodes.
max_workers_OneMore == graph + 1

\* create_executor(): max_workers = len(graph) for the three pool strategies.
max_workers == graph

FreeWorker == Busy < max_workers

\* Work accepted by the pool that has not finished yet.
Outstanding == {i \in Nodes : stask[i] \in {"queued", "running"}}
               \cup {i \in Nodes : runner[i] \in {"queued", "inscope", "leaving"}}

\* Leaving the `with` block: Executor.__exit__ calls shutdown(wait=True), which
\* first flags the pool as shut down and then joins the workers.  e is the
\* exception leaving the block ("none" at its normal end), t the trace so far.
ExitScope(e, t) ==
    /\ pc' = "exit"
    /\ exc' = e
    /\ backend' = "shutdown"
    /\ trace' = Append(t, "release")

(***************************************************************************)
(* get_starter(): starter(node) and the _runner it submits.                *)
(***************************************************************************)

\* futures.insert(0, ...) instead of futures.append(...).
SubmitAccepted_Prepends(i) ==
    /\ backend = "open"
    /\ runner' = [runner EXCEPT ![i] = "queued"]
    /\ futures' = <<i>> \o futures
    /\ UNCHANGED critical

\* executor.submit(_runner) returned a future, appended to futures.
SubmitAccepted(i) ==
    /\ backend = "open"
    /\ runner' = [runner EXCEPT ![i] = "queued"]
    /\ futures' = Append(futures, i)
    /\ UNCHANGED critical

\* executor.submit(_runner) raised (always so once the pool is shut down):
\* caught by `except Exception`, logged, nothing appended.
SubmitRejected(i) ==
    /\ runner' = [runner EXCEPT ![i] = "rejected"]
    /\ critical' = critical \cup {<<"submit", i>>}
    /\ UNCHANGED futures

\* A starter that builds _runner and returns without submitting it.
starter_NoSubmit(i) == UNCHANGED <<runner, futures, critical>>

\* The body of starter(node): lines 71-76.
starter(i) == SubmitAccepted(i) \/ SubmitRejected(i)

\* _runner without its except clause: the exception ends the unit of work.
RunnerCaught_Propagates(i) ==
    /\ runner' = [runner EXCEPT ![i] = "raised"]
    /\ failed' = [failed EXCEPT ![i] = FALSE]
    /\ UNCHANGED critical

\* What _runner does with an exception that reached its `except Exception`.
RunnerCaught(i) ==
    /\ runner' = [runner EXCEPT ![i] = "done"]
    /\ critical' = critical \cup {<<"runner", i>>}
    /\ failed' = [failed EXCEPT ![i] = FALSE]

(***************************************************************************)
(* The coordinating thread: strategy construction and execute().           *)
(***************************************************************************)

\* __init__ without the ALPHA check.
Construct_Unchecked ==
    /\ pc = "new"
    /\ pc' = "init"
    /\ UNCHANGED <<exc, trace, observed, offered, backend>>
    /\ UNCHANGED <<pool, conf, twin>>

\* Strategy(): only AsyncThreadPoolExecutorStrategy.__init__ checks ALPHA.
Construct ==
    /\ pc = "new"
    /\ IF kind = "async" /\ ~alpha
       THEN pc' = "raised" /\ exc' = Exc("NotImplementedError", "__init__")
       ELSE pc' = "init" /\ exc' = exc
    /\ UNCHANGED <<trace, observed, offered, backend>>
    /\ UNCHANGED <<pool, conf, twin>>

\* Line 30: context = self.create_graph_execution_context(graph, **kwargs)
CreateContext ==
    /\ pc = "init"
    /\ pc' = "built"
    /\ UNCHANGED <<exc, trace, observed, offered, backend>>
    /\ UNCHANGED <<pool, conf, twin>>

\* Line 30 raising: nothing encloses it, the exception leaves execute().
CreateContextRaise ==
    /\ pc = "init"
    /\ pc' = "raised"
    /\ exc' = Exc("Exception", "create_graph_execution_context")
    /\ UNCHANGED <<trace, observed, offered, backend>>
    /\ UNCHANGED <<pool, conf, twin>>

\* Line 31: context.write(BEGIN, (), END)
Write ==
    /\ pc = "built"
    /\ trace' = Append(trace, "write")
    /\ pc' = "written"
    /\ UNCHANGED <<exc, observed, offered, backend>>
    /\ UNCHANGED <<pool, conf, twin>>

WriteRaise ==
    /\ pc = "built"
    /\ trace' = Append(trace, "write")
    /\ pc' = "raised"
    /\ exc' = Exc("Exception", "write")
    /\ UNCHANGED <<observed, offered, backend>>
    /\ UNCHANGED <<pool, conf, twin>>

\* Lines 33-35: futures = []; with self.create_executor(graph) as executor.
\* The pool constructors reject max_workers <= 0 with ValueError.
CreateExecutor ==
    /\ pc = "written"
    /\ IF max_workers <= 0
       THEN pc' = "raised" /\ exc' = Exc("Exception", "create_executor")
            /\ UNCHANGED <<trace, backend>>
       ELSE pc' = "entered" /\ exc' = exc
            /\ backend' = "open"
            /\ trace' = Append(trace, "acquire")
    /\ UNCHANGED <<observed, offered>>
    /\ UNCHANGED <<pool, conf, twin>>

\* start() left running in the background: execute() goes on to the loop.
StartCall_NotAwaited ==
    /\ pc = "entered"
    /\ pc' = "loop"
    /\ trace' = Append(trace, "start")
    /\ UNCHANGED <<exc, observed, offered, backend>>
    /\ UNCHANGED <<pool, conf, twin>>

\* Line 37: context.start(self.get_starter(executor, futures)) is entered.
StartCall ==
    /\ pc = "entered"
    /\ pc' = "starting"
    /\ trace' = Append(trace, "start")
    /\ UNCHANGED <<exc, observed, offered, backend>>
    /\ UNCHANGED <<pool, conf, twin>>

\* The context's start() passes the nodes to the starter one by one, in the
\* graph's order; this is the next one.
NextNode == offered + 1

\* starter(node) without its try: a submit that raises makes start() raise,
\* which the handler of lines 38-42 logs.
StartOfferSync_SubmitRaises ==
    /\ pc = "starting"
    /\ kind \in {"thread", "process"}
    /\ NextNode <= graph
    /\ offered' = NextNode
    /\ \/ SubmitAccepted(NextNode) /\ pc' = pc
       \/ /\ runner' = [runner EXCEPT ![NextNode] = "rejected"]
          /\ critical' = critical \cup {<<"start", 0>>}
          /\ pc' = "loop"
          /\ UNCHANGED futures
    /\ UNCHANGED <<exc, trace, observed, backend>>
    /\ UNCHANGED <<stask, scope, failed, conf, twin>>

\* start() calls starter(node) of ExecutorStrategy.get_starter: the submission
\* happens on the coordinating thread.
StartOfferSync ==
    /\ pc = "starting"
    /\ kind \in {"thread", "process"}
    /\ NextNode <= graph
    /\ starter(NextNode)
    /\ offered' = NextNode
    /\ UNCHANGED <<pc, exc, trace, observed, backend>>
    /\ UNCHANGED <<stask, scope, failed, conf, twin>>

\* start() calls the partial of AsyncThreadPoolExecutorStrategy.get_starter:
\* loop.run_in_executor(executor, starter, node) submits the call of
\* starter(node) to the pool and returns.
StartOfferAsync ==
    /\ pc = "starting"
    /\ kind = "async"
    /\ NextNode <= graph
    /\ stask' = [stask EXCEPT ![NextNode] = "queued"]
    /\ offered' = NextNode
    /\ UNCHANGED <<pc, exc, trace, observed, backend>>
    /\ UNCHANGED <<runner, scope, failed, futures, critical, conf, twin>>

\* start() returns after the last node.
StartReturn ==
    /\ pc = "starting"
    /\ offered = graph
    /\ pc' = "loop"
    /\ UNCHANGED <<exc, trace, observed, offered, backend>>
    /\ UNCHANGED <<pool, conf, twin>>

\* start() raising with no try around line 37: the exception leaves the block.
StartRaise_Propagates ==
    /\ pc = "starting"
    /\ ExitScope(Exc("Exception", "start"), trace)
    /\ UNCHANGED <<observed, offered>>
    /\ UNCHANGED <<pool, conf, twin>>

\* Lines 38-42: start() raised an Exception at any point; logged, swallowed.
StartRaise ==
    /\ pc = "starting"
    /\ critical' = critical \cup {<<"start", 0>>}
    /\ pc' = "loop"
    /\ UNCHANGED <<exc, trace, observed, offered, backend>>
    /\ UNCHANGED <<stask, runner, scope, failed, futures, conf, twin>>

\* `except BaseException` at line 38: the interrupt is logged and swallowed.
StartInterrupt_Swallowed ==
    /\ pc = "starting"
    /\ trace' = Append(trace, "interrupt:start")
    /\ critical' = critical \cup {<<"start", 0>>}
    /\ pc' = "loop"
    /\ UNCHANGED <<exc, observed, offered, backend>>
    /\ UNCHANGED <<stask, runner, scope, failed, futures, conf, twin>>

\* KeyboardInterrupt inside start(): not an Exception, leaves the with block.
StartInterrupt ==
    /\ pc = "starting"
    /\ ExitScope(Exc("KeyboardInterrupt", "start"), Append(trace, "interrupt:start"))
    /\ UNCHANGED <<observed, offered>>
    /\ UNCHANGED <<pool, conf, twin>>

\* Line 44: `while context.alive` reads True.
AliveTrue ==
    /\ pc = "loop"
    /\ Count(trace, "tick") < MaxTicks
    /\ observed' = "alive"
    /\ pc' = "tick"
    /\ UNCHANGED <<exc, trace, offered, backend>>
    /\ UNCHANGED <<pool, conf, twin>>

\* Line 44: `while context.alive` reads False; control goes to line 54.
AliveFalse ==
    /\ pc = "loop"
    /\ observed' = "dead"
    /\ pc' = "stop"
    /\ UNCHANGED <<exc, trace, offered, backend>>
    /\ UNCHANGED <<pool, conf, twin>>

\* KeyboardInterrupt while line 44 is evaluated: outside the try of line 45.
AliveInterrupt ==
    /\ pc = "loop"
    /\ ExitScope(Exc("KeyboardInterrupt", "alive"), Append(trace, "interrupt:alive"))
    /\ UNCHANGED <<observed, offered>>
    /\ UNCHANGED <<pool, conf, twin>>

\* Line 46: context.tick() returns.
Tick ==
    /\ pc = "tick"
    /\ trace' = Append(trace, "tick")
    /\ pc' = "loop"
    /\ UNCHANGED <<exc, observed, offered, backend>>
    /\ UNCHANGED <<pool, conf, twin>>

\* Lines 47-50: KeyboardInterrupt out of tick(); warning, then kill().
TickInterrupt ==
    /\ pc = "tick"
    /\ trace' = trace \o <<"tick", "interrupt:tick">>
    /\ pc' = "kill"
    /\ UNCHANGED <<exc, observed, offered, backend>>
    /\ UNCHANGED <<pool, conf, twin>>

\* tick() raising with the executor not used as a context manager: the
\* exception reaches the caller with the pool left open.
TickRaise_NoRelease ==
    /\ pc = "tick"
    /\ pc' = "raised"
    /\ exc' = Exc("Exception", "tick")
    /\ trace' = Append(trace, "tick")
    /\ UNCHANGED <<observed, offered, backend>>
    /\ UNCHANGED <<pool, conf, twin>>

\* A bare `except:` at line 47 that calls kill() and re-raises.
TickRaise_KillsFirst ==
    /\ pc = "tick"
    /\ ExitScope(Exc("Exception", "tick"), trace \o <<"tick", "kill">>)
    /\ UNCHANGED <<observed, offered>>
    /\ UNCHANGED <<pool, conf, twin>>

\* tick() raises anything else: no handler, the exception leaves the block.
TickRaise ==
    /\ pc = "tick"
    /\ ExitScope(Exc("Exception", "tick"), Append(trace, "tick"))
    /\ UNCHANGED <<observed, offered>>
    /\ UNCHANGED <<pool, conf, twin>>

\* kill() without the break of line 52: the loop condition is read again.
Kill_NoBreak ==
    /\ pc = "kill"
    /\ trace' = Append(trace, "kill")
    /\ pc' = "loop"
    /\ UNCHANGED <<exc, observed, offered, backend>>
    /\ UNCHANGED <<pool, conf, twin>>

\* Lines 51-52: context.kill(); break.
Kill ==
    /\ pc = "kill"
    /\ trace' = Append(trace, "kill")
    /\ pc' = "stop"
    /\ UNCHANGED <<exc, observed, offered, backend>>
    /\ UNCHANGED <<pool, conf, twin>>

\* kill() raises inside the except clause: the exception leaves the block.
KillRaise ==
    /\ pc = "kill"
    /\ ExitScope(Exc("Exception", "kill"), Append(trace, "kill"))
    /\ UNCHANGED <<observed, offered>>
    /\ UNCHANGED <<pool, conf, twin>>

\* Line 54: context.stop() returns; the with block ends.
Stop ==
    /\ pc = "stop"
    /\ trace' = Append(trace, "stop")
    /\ pc' = "stopped"
    /\ UNCHANGED <<exc, observed, offered, backend>>
    /\ UNCHANGED <<pool, conf, twin>>

StopRaise ==
    /\ pc = "stop"
    /\ ExitScope(Exc("Exception", "stop"), Append(trace, "stop"))
    /\ UNCHANGED <<observed, offered>>
    /\ UNCHANGED <<pool, conf, twin>>

\* Normal end of the with block of line 35.
LeaveWith ==
    /\ pc = "stopped"
    /\ ExitScope(NoExc, trace)
    /\ UNCHANGED <<observed, offered>>
    /\ UNCHANGED <<pool, conf, twin>>

\* shutdown(wait=True) returns once every worker has drained the queue and
\* ended; then line 56 returns the context, or the exception goes on.
Join ==
    /\ pc = "exit"
    /\ Outstanding = {}
    /\ backend' = "closed"
    /\ pc' = IF exc = NoExc THEN "returned" ELSE "raised"
    /\ UNCHANGED <<exc, trace, observed, offered>>
    /\ UNCHANGED <<pool, conf, twin>>

(***************************************************************************)
(* The workers of the pool.                                                *)
(***************************************************************************)

\* async: a worker takes the scheduled starter(node) call and runs it; the
\* submission of _runner happens on that worker.
StarterTaskRun(i) ==
    /\ stask[i] = "queued"
    /\ FreeWorker
    /\ stask' = [stask EXCEPT ![i] = "running"]
    /\ starter(i)
    /\ UNCHANGED <<coord, backend, scope, failed, conf, twin>>

StarterTaskReturn(i) ==
    /\ stask[i] = "running"
    /\ stask' = [stask EXCEPT ![i] = "done"]
    /\ UNCHANGED <<coord, backend, runner, scope, failed, futures, critical, conf, twin>>

\* Lines 62-63: a worker takes _runner; `with node:` enters the scope.
RunnerEnter(i) ==
    /\ runner[i] = "queued"
    /\ FreeWorker
    /\ runner' = [runner EXCEPT ![i] = "inscope"]
    /\ scope' = [scope EXCEPT ![i] = "acquired"]
    /\ UNCHANGED <<coord, backend, stask, failed, futures, critical, conf, twin>>

\* node.__enter__ raises: no scope, the except clause of line 65 logs it.
RunnerEnterFail(i) ==
    /\ runner[i] = "queued"
    /\ FreeWorker
    /\ RunnerCaught(i)
    /\ UNCHANGED <<coord, backend, stask, scope, futures, conf, twin>>

\* Line 64: node.loop() returns.
RunnerLoopEnd(i) ==
    /\ runner[i] = "inscope"
    /\ runner' = [runner EXCEPT ![i] = "leaving"]
    /\ UNCHANGED <<coord, backend, stask, scope, failed, futures, critical, conf, twin>>

\* try/except around node.loop() without `with`: a raising loop() reaches
\* the except clause with the scope still held.
RunnerLoopFail_SkipsExit(i) ==
    /\ runner[i] = "inscope"
    /\ RunnerCaught(i)
    /\ UNCHANGED <<coord, backend, stask, scope, futures, conf, twin>>

\* Line 64: node.loop() raises; the with statement calls __exit__ first.
RunnerLoopFail(i) ==
    /\ runner[i] = "inscope"
    /\ runner' = [runner EXCEPT ![i] = "leaving"]
    /\ failed' = [failed EXCEPT ![i] = TRUE]
    /\ UNCHANGED <<coord, backend, stask, scope, futures, critical, conf, twin>>

\* node.__exit__ returns: the scope is released; a pending exception of
\* loop() then reaches the except clause, otherwise _runner returns.
RunnerExit(i) ==
    /\ runner[i] = "leaving"
    /\ scope' = [scope EXCEPT ![i] = "released"]
    /\ IF failed[i]
       THEN RunnerCaught(i)
       ELSE /\ runner' = [runner EXCEPT ![i] = "done"]
            /\ UNCHANGED <<failed, critical>>
    /\ UNCHANGED <<coord, backend, stask, futures, conf, twin>>

\* node.__exit__ raises: that exception reaches the except clause.
RunnerExitFail(i) ==
    /\ runner[i] = "leaving"
    /\ scope' = [scope EXCEPT ![i] = "released"]
    /\ RunnerCaught(i)
    /\ UNCHANGED <<coord, backend, stask, futures, conf, twin>>

Next ==
    \/ Construct
    \/ CreateContext
    \/ CreateContextRaise
    \/ Write
    \/ WriteRaise
    \/ CreateExecutor
    \/ StartCall
    \/ StartOfferSync
    \/ StartOfferAsync
    \/ StartReturn
    \/ StartRaise
    \/ StartInterrupt
    \/ AliveTrue
    \/ AliveFalse
    \/ AliveInterrupt
    \/ Tick
    \/ TickInterrupt
    \/ TickRaise
    \/ Kill
    \/ KillRaise
    \/ Stop
    \/ StopRaise
    \/ LeaveWith
    \/ Join
    \/ \E i \in Nodes : StarterTaskRun(i)
    \/ \E i \in Nodes : StarterTaskReturn(i)
    \/ \E i \in Nodes : RunnerEnter(i)
    \/ \E i \in Nodes : RunnerEnterFail(i)
    \/ \E i \in Nodes : RunnerLoopEnd(i)
    \/ \E i \in Nodes : RunnerLoopFail(i)
    \/ \E i \in Nodes : RunnerExit(i)
    \/ \E i \in Nodes : RunnerExitFail(i)

Spec == Init /\ [][Next]_vars

TypeOK ==
    /\ kind \in Kinds
    /\ alpha \in BOOLEAN
    /\ graph \in 0..MaxNodes
    /\ pc \in {"new", "init", "built", "written", "entered", "starting", "loop",
               "tick", "kill", "stop", "stopped", "exit", "returned", "raised"}
    /\ exc.type \in {"none", "Exception", "KeyboardInterrupt", "NotImplementedError"}
    /\ exc.from \in {"none", "__init__", "create_graph_execution_context", "write",
                      "create_executor", "start", "alive", "tick", "kill", "stop"}
    /\ observed \in {"none", "alive", "dead"}
    /\ offered \in 0..graph
    /\ backend \in {"none", "open", "shutdown", "closed"}
    /\ \A i \in Nodes :
        /\ stask[i] \in {"none", "queued", "running", "done"}
        /\ runner[i] \in {"none", "rejected", "queued", "inscope", "leaving",
                          "done", "raised"}
        /\ scope[i] \in {"none", "acquired", "released"}
        /\ failed[i] \in BOOLEAN

(***************************************************************************)
(* Vocabulary of the properties.                                           *)
(***************************************************************************)

Acquired == Has(trace, "acquire")
Released == Has(trace, "release")
Finished == pc \in {"returned", "raised"}

\* start() was called and returned normally.
StartReturned ==
    /\ Has(trace, "start")
    /\ pc # "starting"
    /\ <<"start", 0>> \notin critical
    /\ ~Has(trace, "interrupt:start")

\* start() raised an Exception, swallowed by lines 38-42.
StartFailed == <<"start", 0>> \in critical

\* Nodes for which executor.submit(_runner) has been called.
Attempted == {i \in Nodes : runner[i] # "none"}

Rejected == {i \in Nodes : runner[i] = "rejected"}

Handles == {futures[k] : k \in 1..Len(futures)}

\* Every occurrence of a precedes every occurrence of b.
AllBefore(s, a, b) ==
    \A j, k \in 1..Len(s) : (s[j] = a /\ s[k] = b) => j < k

(***************************************************************************)
(* C1.  On every path on which the backend was acquired, stop() is called  *)
(* exactly once and before the backend is released, also after an abnormal *)
(* end of the tick loop.  Stated for the paths that ticked at least once.  *)
(* The code has no handler around tick() for other exceptions and no       *)
(* finally: the statement is violated.                                     *)
(***************************************************************************)
C1_StopOnEveryPath ==
    (Released /\ Has(trace, "tick")) =>
        /\ Count(trace, "stop") = 1
        /\ Before(trace, "stop", "release")

(***************************************************************************)
(* C2.  An interrupt delivered during the tick loop, while tick() runs or  *)
(* while `alive` is evaluated, leads to kill() once, then stop() once,     *)
(* both before the release, and no exception escapes execute().  Line 44   *)
(* is outside the try of line 45: the statement is violated.               *)
(***************************************************************************)
LoopInterrupted == Has(trace, "interrupt:alive") \/ Has(trace, "interrupt:tick")

C2_InterruptKillsThenStops ==
    /\ (LoopInterrupted /\ Released) =>
          /\ Count(trace, "kill") = 1
          /\ Count(trace, "stop") = 1
          /\ Before(trace, "kill", "stop")
          /\ Before(trace, "stop", "release")
    /\ (LoopInterrupted /\ Finished) => pc = "returned"

(***************************************************************************)
(* C3.  The context operations occur in the order write -> start ->        *)
(* tick* -> stop: write once and before the backend is acquired, start     *)
(* once and before the first tick, no tick after stop, and the backend is  *)
(* released only after stop and before execute() returns the context.      *)
(* The release without stop() of C1 violates it.                           *)
(***************************************************************************)
C3_LifecycleOrder ==
    /\ Count(trace, "write") <= 1
    /\ Acquired => Before(trace, "write", "acquire")
    /\ Count(trace, "start") <= 1
    /\ Has(trace, "tick") => Before(trace, "start", "tick")
    /\ AllBefore(trace, "tick", "stop")
    /\ (Released /\ Has(trace, "tick")) => Before(trace, "stop", "release")
    /\ pc = "returned" => (Released /\ backend = "closed")

(***************************************************************************)
(* C4 as stated.  A call that returns the context has invoked the starter  *)
(* for exactly len(G) nodes and called submit for exactly len(G) runners,  *)
(* also when start() raised part-way.                                      *)
(***************************************************************************)
C4_ExactlyLenSubmissions ==
    pc = "returned" =>
        /\ offered = graph
        /\ Cardinality(Attempted) = graph

(***************************************************************************)
(* C4 amended.  When start() returns normally the starter has been invoked *)
(* for exactly len(G) nodes; on the thread and process strategies submit   *)
(* has then been called for exactly len(G) runners, on the bridged one it  *)
(* has been by the time the backend is released; each submission that did  *)
(* not raise left exactly one handle.  When start() raises part-way, only  *)
(* the nodes offered before the failure are submitted.                     *)
(***************************************************************************)
C4_SubmissionsWhenStartReturns ==
    /\ StartReturned => offered = graph
    /\ (StartReturned /\ kind # "async") => Cardinality(Attempted) = graph
    /\ (StartReturned /\ backend = "closed") => Cardinality(Attempted) = graph
    /\ Attempted \subseteq 1..offered
    /\ Len(futures) = Cardinality(Handles)
    /\ Handles = Attempted \ Rejected

\* A 2-node call returned after start() returned, one submission rejected,
\* one runner failed.
C4_Witness ==
    /\ pc = "returned"
    /\ StartReturned
    /\ graph = 2
    /\ Cardinality(Rejected) = 1
    /\ \E i \in Nodes : <<"runner", i>> \in critical

(***************************************************************************)
(* C5 as stated.  At every tick() the starter has been offered every node  *)
(* of the graph, also when start() raised.                                 *)
(***************************************************************************)
C5_AllOfferedBeforeTick ==
    (pc = "tick" \/ Has(trace, "tick")) => offered = graph

(***************************************************************************)
(* C5 amended.  When start() returned normally, every node of the graph    *)
(* has been passed to the starter before the first tick(); when start()    *)
(* raised, the context is ticked with only the nodes offered before the    *)
(* failure.                                                                *)
(***************************************************************************)
C5_AllOfferedBeforeTickWhenStartReturns ==
    /\ ((pc = "tick" \/ Has(trace, "tick")) /\ ~StartFailed) => offered = graph
    /\ pc = "tick" => Has(trace, "start")
    /\ Has(trace, "tick") => Before(trace, "start", "tick")
    /\ pc \in {"loop", "tick"} => (StartReturned \/ StartFailed)

C5_Witness ==
    /\ pc = "tick"
    /\ ~Has(trace, "tick")
    /\ StartReturned
    /\ graph = 2
    /\ offered = 2

(***************************************************************************)
(* C6.  On the bridged strategy every node's _runner has been submitted to *)
(* the pool before the first tick() and before the release of the backend  *)
(* begins, so that no submission is rejected or lost.  Taken where start() *)
(* returned normally.  run_in_executor only queues the starter call: the   *)
(* statement is violated.                                                  *)
(***************************************************************************)
C6_BridgedSubmittedBeforeTick ==
    (kind = "async" /\ StartReturned /\ (pc = "tick" \/ Has(trace, "tick") \/ Released)) =>
        \A i \in Nodes : runner[i] \notin {"none"}

(***************************************************************************)
(* C7.  Whenever execute() has left the scope that owns the backend, by    *)
(* returning or by propagating an exception, the backend is released and   *)
(* no submitted unit of work is queued or running; nothing is accepted by  *)
(* the backend afterwards.                                                 *)
(***************************************************************************)
C7_ReleasedAndDrainedOnExit ==
    /\ (Finished /\ Acquired) =>
          /\ backend = "closed"
          /\ Released
          /\ Outstanding = {}
          /\ \A i \in Nodes : runner[i] \in {"none", "rejected", "done"}
          /\ \A i \in Nodes : stask[i] \in {"none", "done"}
    /\ backend = "closed" => Finished
    /\ (pc = "exit") => backend = "shutdown"

\* tick() raised while a runner was going; the exception reached the caller
\* after both runners of the graph had ended.
C7_Witness ==
    /\ pc = "raised"
    /\ exc = Exc("Exception", "tick")
    /\ graph = 2
    /\ \A i \in Nodes : runner[i] = "done"
    /\ backend = "closed"

(***************************************************************************)
(* C8 as stated.  No exception raised while the context is built or while  *)
(* it is starting escapes execute().                                       *)
(***************************************************************************)
C8_BuildAndStartNeverEscape ==
    ~(pc = "raised" /\ exc.type = "Exception"
      /\ exc.from \in {"create_graph_execution_context", "start"})

(***************************************************************************)
(* C8 amended.  An Exception raised by start() never escapes execute(): it *)
(* is logged as critical and execute() proceeds to the tick loop; unless   *)
(* the loop or stop() then lets an exception out (an interrupt at `alive`, *)
(* tick(), kill() or stop() raising), execute() calls stop(), releases the *)
(* backend and returns the context.  An exception raised while the context *)
(* is built is not caught: it leaves execute() before write(), before the  *)
(* backend exists.                                                         *)
(***************************************************************************)
C8_StartFailureContained ==
    /\ ~(pc = "raised" /\ exc.type = "Exception" /\ exc.from = "start")
    /\ StartFailed =>
          /\ pc \in {"loop", "tick", "kill", "stop", "stopped", "exit",
                     "returned", "raised"}
          /\ Count(trace, "start") = 1
          /\ exc.from \in {"none", "alive", "tick", "kill", "stop"}
          /\ (pc = "returned" =>
                /\ Count(trace, "stop") = 1
                /\ Before(trace, "stop", "release")
                /\ backend = "closed")
    /\ exc.from = "create_graph_execution_context" =>
          /\ pc = "raised"
          /\ trace = <<>>
          /\ backend = "none"

\* start() raised after offering one node of two; execute() ticked, stopped
\* and returned.
C8_Witness ==
    /\ StartFailed
    /\ pc = "returned"
    /\ graph = 2
    /\ offered = 1
    /\ Has(trace, "tick")

(***************************************************************************)
(* C9.  A submission that raises is logged by the starter and leaves no    *)
(* handle; the starter returns normally, so start() goes on with the next  *)
(* node, and a start() that returns has offered every node and submitted   *)
(* every other node's runner.                                              *)
(***************************************************************************)
SubmissionFails(i) == runner[i] # "rejected" /\ runner'[i] = "rejected"

C9_SubmissionFailureContained ==
    /\ [](\A i \in Nodes :
            /\ i \in Rejected <=> <<"submit", i>> \in critical
            /\ i \in Rejected => i \notin Handles)
    /\ []((StartReturned /\ Rejected # {} /\ kind # "async") =>
            /\ offered = graph
            /\ \A j \in Nodes \ Rejected : j \in Handles)
    /\ [][\A i \in Nodes : SubmissionFails(i) =>
            /\ futures' = futures
            /\ critical' = critical \cup {<<"submit", i>>}
            /\ exc' = exc
            /\ pc' = pc
            /\ (kind # "async" => pc' = "starting" /\ offered' = i)
            /\ \A j \in Nodes \ {i} : runner'[j] = runner[j]]_vars

\* The first node's submission raised, the second node's was accepted, and
\* start() returned.
C9_Witness ==
    /\ kind = "thread"
    /\ graph = 2
    /\ runner[1] = "rejected"
    /\ futures = <<2>>
    /\ StartReturned

(***************************************************************************)
(* C10.  A failure raised while _runner enters the node's scope, runs      *)
(* node.loop() or leaves the scope never propagates out of _runner: it is  *)
(* logged as critical and the runner ends normally; the step that handles  *)
(* it changes neither the backend, nor the coordinating thread, nor any    *)
(* other node's runner.                                                    *)
(***************************************************************************)
RunnerFails(i) == <<"runner", i>> \notin critical /\ <<"runner", i>> \in critical'

C11_ScopeReleasedOnce ==
    /\ [](\A i \in Nodes :
            /\ runner[i] = "inscope" => scope[i] = "acquired"
            /\ scope[i] = "acquired" => runner[i] \in {"inscope", "leaving"}
            /\ runner[i] \in {"done", "raised"} => scope[i] \in {"none", "released"})
    /\ [][\A i \in Nodes : scope'[i] # scope[i] =>
            \/ scope[i] = "none" /\ scope'[i] = "acquired" /\ runner'[i] = "inscope"
            \/ scope[i] = "acquired" /\ scope'[i] = "released"
               /\ runner[i] = "leaving" /\ runner'[i] = "done"]_vars
    /\ [][\A i \in Nodes : (runner[i] = "inscope" /\ runner'[i] # "inscope") =>
            (runner'[i] = "leaving" /\ scope'[i] = "acquired")]_vars

\* After kill(): node 1's loop had raised and node 2's had returned; both
\* scopes were released and both runners ended.
C11_Witness ==
    /\ graph = 2
    /\ Has(trace, "kill")
    /\ critical = {<<"runner", 1>>}
    /\ scope[1] = "released"
    /\ scope[2] = "released"
    /\ runner[2] = "done"

(***************************************************************************)
(* A run without outside faults: no collaborator call of the coordinating  *)
(* thread raises, no interrupt arrives, and submit() raises only on a pool *)
(* that is shut down.  Nodes may still fail in __enter__, loop() or        *)
(* __exit__.  The strategy has been constructed (ALPHA set for async).     *)
(***************************************************************************)
QuietInit == Init /\ (kind = "async" => alpha)

QuietOfferSync == StartOfferSync /\ runner'[NextNode] = "queued"

QuietStarterTaskRun(i) ==
    StarterTaskRun(i) /\ (backend = "open" => runner'[i] = "queued")

QuietCoord ==
    \/ Construct
    \/ CreateContext
    \/ Write
    \/ CreateExecutor
    \/ StartCall
    \/ QuietOfferSync
    \/ StartOfferAsync
    \/ StartReturn
    \/ AliveTrue
    \/ AliveFalse
    \/ Tick
    \/ Stop
    \/ LeaveWith
    \/ Join

QuietWorker(i) ==
    \/ QuietStarterTaskRun(i)
    \/ StarterTaskReturn(i)
    \/ RunnerEnter(i)
    \/ RunnerEnterFail(i)
    \/ RunnerLoopEnd(i)
    \/ RunnerLoopFail(i)
    \/ RunnerExit(i)
    \/ RunnerExitFail(i)

QuietNext == QuietCoord \/ \E i \in Nodes : QuietWorker(i)

\* Fairness: the coordinating thread and the pool's workers keep running,
\* every node's loop ends, and the context eventually reports not alive.
QuietSpec ==
    /\ QuietInit
    /\ [][QuietNext]_vars
    /\ WF_vars(QuietCoord)
    /\ SF_vars(AliveFalse)
    /\ \A i \in 1..MaxNodes : WF_vars(i \in Nodes /\ QuietWorker(i))

(***************************************************************************)
(* C12.  For every graph whose node loops all end, execute() returns with  *)
(* no exception escaping, the context last seen not alive, every node's    *)
(* runner ended and the backend released; also for the empty graph.  What  *)
(* a finished call must look like, in a run without outside faults.  The   *)
(* pool constructor rejects max_workers = len(graph) = 0: violated.        *)
(***************************************************************************)
C12_ReturnsNotAliveAllDone ==
    Finished =>
        /\ pc = "returned"
        /\ observed = "dead"
        /\ backend = "closed"
        /\ \A i \in Nodes : runner[i] = "done"

\* The same for the graphs and strategies the code handles: a non-empty graph
\* always ends in a returned context (on the thread and process strategies
\* with every runner ended).
C12_NonEmptyGraphReturns ==
    graph > 0 =>
        <>(/\ pc = "returned"
           /\ observed = "dead"
           /\ backend = "closed"
           /\ (kind # "async" => \A i \in Nodes : runner[i] = "done"))

(***************************************************************************)
(* C13 as stated.  On the thread, process and bridged strategies the       *)
(* backend has exactly len(G) workers and the number of units of work      *)
(* submitted to it and not yet finished never exceeds len(G).              *)
(***************************************************************************)
Units == Cardinality({i \in Nodes : stask[i] \in {"queued", "running"}})
         + Cardinality({i \in Nodes : runner[i] \in {"queued", "inscope", "leaving"}})

C13_AtMostLenUnits ==
    Acquired => (max_workers = graph /\ Units <= graph)

(***************************************************************************)
(* C13 amended.  A backend exists only for a non-empty graph and has       *)
(* exactly len(G) workers: at most len(G) units of work run at once.  On   *)
(* the thread and process strategies at most len(G) units are submitted    *)
(* and unfinished; on the bridged strategy the scheduled starter calls are *)
(* units of the same pool, so up to 2 * len(G) can be.                     *)
(***************************************************************************)
C13_PoolSizedToGraph ==
    /\ backend # "none" => (graph > 0 /\ Acquired)
    /\ graph = 0 => ~Acquired
    /\ Busy <= graph
    /\ kind # "async" => Units <= graph
    /\ kind = "async" => Units <= 2 * graph

\* Bridged, two nodes: both starter calls are running and both runners are
\* already queued behind them.
C13_Witness ==
    /\ kind = "async"
    /\ graph = 2
    /\ Units = 4
    /\ Busy = 2

(***************************************************************************)
(* C14.  An exception other than an interrupt raised by tick() is not      *)
(* caught by execute(): it propagates, kill() is not called, no further    *)
(* tick() is called, and the backend is released before the exception      *)
(* reaches the caller.                                                     *)
(***************************************************************************)
Last(s) == s[Len(s)]

C14_TickExceptionPropagates ==
    /\ exc.from = "tick" =>
          /\ exc.type = "Exception"
          /\ pc \in {"exit", "raised"}
          /\ ~Has(trace, "kill")
          /\ Len(trace) >= 2
          /\ trace[Len(trace) - 1] = "tick"
          /\ Last(trace) = "release"
          /\ (pc = "raised" => (backend = "closed" /\ Outstanding = {}))
          /\ (pc = "exit" => backend = "shutdown")
    /\ (pc = "exit" /\ Len(trace) >= 2 /\ trace[Len(trace) - 1] = "tick") =>
          exc = Exc("Exception", "tick")

\* The second tick() raised; the exception reached the caller after the
\* release, with one tick before it.
C14_Witness ==
    /\ pc = "raised"
    /\ exc = Exc("Exception", "tick")
    /\ Count(trace, "tick") = 2
    /\ graph = 2

(***************************************************************************)
(* C15.  Constructing the bridged strategy with ALPHA not set fails at     *)
(* once with NotImplementedError, before any context or backend exists;    *)
(* with ALPHA set (and for the other strategies) construction succeeds.    *)
(***************************************************************************)
C15_AlphaGate ==
    /\ (kind = "async" /\ ~alpha) =>
          /\ pc \in {"new", "raised"}
          /\ (pc = "raised" => exc = Exc("NotImplementedError", "__init__"))
          /\ trace = <<>>
          /\ backend = "none"
          /\ offered = 0
    /\ (kind # "async" \/ alpha) => exc.from # "__init__"
    /\ exc.type = "NotImplementedError" => (kind = "async" /\ ~alpha)

C15_Witness ==
    /\ kind = "async"
    /\ ~alpha
    /\ pc = "raised"
    /\ exc = Exc("NotImplementedError", "__init__")

(***************************************************************************)
(* C17.  kill() is called at most once and only after an interrupt out of  *)
(* tick(); no tick() follows kill(); without an interrupt the tick loop    *)
(* goes on to stop() only when `alive` was read False, so a context        *)
(* returned by an uninterrupted execute() was seen not alive before stop().*)
(***************************************************************************)
Interrupted ==
    \/ Has(trace, "interrupt:start")
    \/ Has(trace, "interrupt:alive")
    \/ Has(trace, "interrupt:tick")

C17_KillOnlyOnInterrupt ==
    /\ Count(trace, "kill") <= 1
    /\ Has(trace, "kill") => Before(trace, "interrupt:tick", "kill")
    /\ pc = "kill" => Last(trace) = "interrupt:tick"
    /\ AllBefore(trace, "tick", "kill")
    /\ (Has(trace, "kill") \/ pc = "kill") => pc \notin {"loop", "tick"}
    /\ (~Interrupted /\ (pc = "stop" \/ Has(trace, "stop"))) => observed = "dead"
    /\ (~Interrupted /\ pc = "returned") => (observed = "dead" /\ Has(trace, "stop"))

\* One tick returned, the next was interrupted; kill() and stop() were called
\* and execute() returned a context last seen alive.
C17_Witness ==
    /\ pc = "returned"
    /\ Has(trace, "kill")
    /\ Count(trace, "tick") = 2
    /\ observed = "alive"

(***************************************************************************)
(* C19.  An interrupt inside start() is not caught by `except Exception`:  *)
(* it leaves execute() with no tick(), kill() or stop(), and the backend   *)
(* is released, the runners already submitted drained, before it reaches   *)
(* the caller.                                                             *)
(***************************************************************************)
C19_StartInterruptPropagates ==
    Has(trace, "interrupt:start") =>
        /\ exc = Exc("KeyboardInterrupt", "start")
        /\ pc \in {"exit", "raised"}
        /\ trace = <<"write", "acquire", "start", "interrupt:start", "release">>
        /\ ~StartFailed
        /\ (pc = "raised" => (backend = "closed" /\ Outstanding = {}))
        /\ (pc = "exit" => backend = "shutdown")

\* The interrupt came after the first of two nodes was offered; its runner
\* ran to the end before the interrupt reached the caller.
C19_Witness ==
    /\ pc = "raised"
    /\ exc = Exc("KeyboardInterrupt", "start")
    /\ graph = 2
    /\ offered = 1
    /\ runner[1] = "done"
    /\ scope[1] = "released"

(***************************************************************************)
(* C18 as stated.  The futures list holds exactly one handle per accepted  *)
(* submission, in the order in which the nodes were offered to the         *)
(* starter (nodes are numbered in that order).                             *)
(***************************************************************************)
InOfferOrder(f) == \A j, k \in 1..Len(f) : j < k => f[j] < f[k]

C18_HandlesInOfferOrder ==
    /\ Handles = Attempted \ Rejected
    /\ InOfferOrder(futures)

(***************************************************************************)
(* C18 amended.  The futures list only grows, by appending; it holds       *)
(* exactly one handle per accepted submission.  On the thread and process  *)
(* strategies the handles are in the order in which the nodes were offered *)
(* to the starter; on the bridged strategy they are in the order in which  *)
(* the workers ran the scheduled starter calls, which may differ.  No step *)
(* of the coordinating thread reads the list.                              *)
(***************************************************************************)
IsPrefix(f, g) == Len(f) <= Len(g) /\ \A k \in 1..Len(f) : f[k] = g[k]

C18_HandlesOnlyGrow ==
    /\ [](/\ Handles = Attempted \ Rejected
          /\ Len(futures) = Cardinality(Handles)
          /\ (kind # "async" => InOfferOrder(futures)))
    /\ [][IsPrefix(futures, futures') /\ Len(futures') <= Len(futures) + 1]_vars
    /\ [][futures' # futures =>
            /\ UNCHANGED <<pc, exc, trace, observed>>
            /\ runner'[Last(futures')] = "queued"
            /\ runner[Last(futures')] = "none"]_vars

\* Bridged, two nodes: the worker running starter(node 2) appended first.
C18_Witness ==
    /\ kind = "async"
    /\ futures = <<2, 1>>
    /\ pc = "returned"

(***************************************************************************)
(* Two execute() calls running concurrently on one strategy object.  The   *)
(* strategy keeps no per-call state on self: futures (line 33) and executor *)
(* (line 35) are locals of the call, and get_starter closes over exactly    *)
(* these two locals.  Objects are modelled by identity: heap[o] is the      *)
(* object with id o, and a constructor call appends a new object.           *)
(***************************************************************************)

\* `futures = []`: an empty list object.
NewList == [type |-> "list", items |-> <<>>, state |-> "none", work |-> {}]

\* executor_factory(max_workers=...): a pool object accepting submissions.
NewPool == [type |-> "pool", items |-> <<>>, state |-> "open", work |-> {}]

\* Id of the list that `futures = []` binds in call c: a list constructed now.
ListFor(c) == Len(heap) + 1

\* A create_executor that kept the pool on the strategy object: a later call
\* gets the pool of an earlier one.
ExecutorFor_Cached(c) ==
    IF \E d \in Calls : calls[d].executor # 0
    THEN calls[CHOOSE d \in Calls : calls[d].executor # 0].executor
    ELSE Len(heap) + 2

\* Id of the pool that create_executor returns in call c: a pool constructed
\* now, after the list.
ExecutorFor(c) == Len(heap) + 2

\* Lines 29-35: the call binds futures to a new list and enters the `with` on
\* the pool create_executor returns.
CallEnter(c) ==
    /\ calls[c].pc = "idle"
    /\ LET l  == ListFor(c)
           e  == ExecutorFor(c)
           h1 == Append(heap, NewList)
       IN  /\ heap' = IF e > Len(h1) THEN Append(h1, NewPool) ELSE h1
           /\ calls' = [calls EXCEPT ![c] = [@ EXCEPT !.pc = "starting",
                                                      !.executor = e,
                                                      !.futures = l]]
    /\ UNCHANGED <<coord, backend, pool, conf>>

\* Lines 37 and 59-76: the starter of call c submits _runner for the next
\* node to the pool of its closure and appends the handle to the list of its
\* closure; a pool that was shut down refuses and nothing is appended.
CallStarter(c) ==
    /\ calls[c].pc = "starting"
    /\ calls[c].offered < graph
    /\ LET i == calls[c].offered + 1
           e == calls[c].executor
           l == calls[c].futures
       IN  IF heap[e].state = "open"
           THEN /\ heap' = [heap EXCEPT ![e].work = @ \cup {<<c, i>>},
                                        ![l].items = Append(@, <<c, i>>)]
                /\ calls' = [calls EXCEPT ![c].offered = i]
           ELSE /\ heap' = heap
                /\ calls' = [calls EXCEPT ![c].offered = i,
                                          ![c].rejected = @ \cup {i}]
    /\ UNCHANGED <<coord, backend, pool, conf>>

\* Lines 61-68: a _runner that pool o holds returns.
CallRunnerEnd(o, w) ==
    /\ o \in 1..Len(heap)
    /\ w \in heap[o].work
    /\ heap' = [heap EXCEPT ![o].work = @ \ {w}]
    /\ UNCHANGED <<calls, coord, backend, pool, conf>>

\* Line 35, leaving the `with`: shutdown of the pool bound in call c.
CallLeave(c) ==
    /\ calls[c].pc = "starting"
    /\ heap' = [heap EXCEPT ![calls[c].executor].state = "shutdown"]
    /\ calls' = [calls EXCEPT ![c].pc = "exit"]
    /\ UNCHANGED <<coord, backend, pool, conf>>

\* shutdown(wait=True) returns once the pool holds no unfinished work.
CallJoin(c) ==
    /\ calls[c].pc = "exit"
    /\ heap[calls[c].executor].work = {}
    /\ heap' = [heap EXCEPT ![calls[c].executor].state = "closed"]
    /\ calls' = [calls EXCEPT ![c].pc = "done"]
    /\ UNCHANGED <<coord, backend, pool, conf>>

CallsInit == Init /\ graph > 0 /\ (kind = "async" => alpha)

CallsNext ==
    \/ \E c \in Calls : \/ CallEnter(c)
                        \/ CallStarter(c)
                        \/ CallLeave(c)
                        \/ CallJoin(c)
    \/ \E o \in 1..(2 * Cardinality(Calls)) : \E w \in Calls \X (1..MaxNodes) :
           CallRunnerEnd(o, w)

CallsSpec == CallsInit /\ [][CallsNext]_vars

Entered(c) == calls[c].pc # "idle"

\* C16: execute() calls running at the same time on one strategy each have
\* their own backend and their own handle collection: two calls never hold
\* the same pool or the same list, a pool holds only runners of the call that
\* created it, a list holds only handles of its own call, a step of one call
\* (entering, submitting, releasing its backend) leaves the pool and the list
\* of the other call as they were, and no submission is refused.
C16_CallsShareNothing ==
    /\ [](\A c \in Calls : Entered(c) =>
            /\ heap[calls[c].executor].type = "pool"
            /\ heap[calls[c].futures].type = "list"
            /\ \A w \in heap[calls[c].executor].work : w[1] = c
            /\ \A k \in 1..Len(heap[calls[c].futures].items) :
                   heap[calls[c].futures].items[k][1] = c
            /\ calls[c].rejected = {}
            /\ \A d \in Calls \ {c} : Entered(d) =>
                   /\ calls[c].executor # calls[d].executor
                   /\ calls[c].futures # calls[d].futures)
    /\ [][\A c \in Calls : \A d \in Calls \ {c} :
            (calls'[c] # calls[c] /\ Entered(d)) =>
                /\ heap'[calls[d].executor] = heap[calls[d].executor]
                /\ heap'[calls[d].futures] = heap[calls[d].futures]]_vars

\* One call has released its backend and returned while the other, started
\* meanwhile, still submits and has a runner at work.
C16_Witness ==
    /\ calls[1].pc = "done"
    /\ Len(heap[calls[1].futures].items) = graph
    /\ calls[2].pc = "starting"
    /\ 0 < calls[2].offered /\ calls[2].offered < graph
    /\ heap[calls[2].executor].work # {}

====
